---- MODULE Spec2Model ----
(***************************************************************************)
(* Model of slam::Tracking (src/src/localization/tracking.cpp): the        *)
(* tracking state machine driven by msgsCallback, the ratio-test matcher   *)
(* and the pose solve of trackCurrentFrame, and the fixed-frame policy of  *)
(* needNewFixedFrame.                                                      *)
(*                                                                         *)
(* One synchronized message set is one msgsCallback step.  A message set   *)
(* is identified by its sequence number seq; its odometry sample and its   *)
(* camera-info pair are named by seq, its stereo image by the sequence of  *)
(* left descriptors that Frame extracts from it.  Descriptors are binary   *)
(* strings (sets of the bit positions that are 1), compared by Hamming     *)
(* distance as the "BruteForce-Hamming" matcher does.                      *)
(***************************************************************************)
EXTENDS Integers, Sequences, FiniteSets, TLC

\* ---------------------------------------------------------------- bounds
\* Number of message sets delivered in a run.
MaxInputs == 5

\* MIN_INLIERS is a configuration constant of tracking.h; the model runs it
\* at a small value (every property must hold for any threshold).
MIN_INLIERS == 2

\* Longest current-frame descriptor list in the matcher's own specification.
MaxQuery == 2

\* Longest descriptor list of a frame: enough to reach the threshold and
\* to exceed it by one.
MaxDesc == MIN_INLIERS + 1

\* ------------------------------------------------------------- constants
\* const int knn = 2;
knn == 2
\* const double ratio = 0.9; kept exact as the fraction RatioNum / RatioDen.
\* Hamming distances are integers, so d1 <= d2 * 0.9 in double arithmetic
\* decides the same as RatioDen * d1 <= RatioNum * d2.
RatioNum == 9
RatioDen == 10

NOT_INITIALIZED == "NOT_INITIALIZED"
INITIALIZING == "INITIALIZING"
WORKING == "WORKING"
States == {NOT_INITIALIZED, INITIALIZING, WORKING}

\* ------------------------------------------------------------ descriptors
DescA == {}
DescB == 1..9
DescC == 1..10
DescD == 1..11

\* Descriptors the images of the state machine are built from.
DescPool == {DescA, DescB}
\* Descriptors of the matcher's own specification: distances 0,1,2,9,10,11.
MatchPool == {DescA, DescB, DescC, DescD}

\* The stereo images a message set can carry, as the descriptor lists Frame
\* extracts from them: up to MaxDesc key points that all look alike.
Images == {[i \in 1..n |-> d] : n \in 0..MaxDesc, d \in DescPool}

RECURSIVE SeqsUpTo(_, _)
SeqsUpTo(S, n) ==
  IF n = 0 THEN {<<>>}
  ELSE LET shorter == SeqsUpTo(S, n - 1)
       IN  shorter \cup {Append(s, x) : s \in {t \in shorter : Len(t) = n - 1},
                                        x \in S}

\* Order among equidistant neighbours is not fixed by the matcher's contract.
TieOrders == {"first", "last"}

Hamming(a, b) == Cardinality((a \ b) \cup (b \ a))

\* ----------------------------------------------------------------- frames
\* A default-constructed Frame.
NoFrame == [id |-> 0, desc |-> <<>>, pose |-> <<0, "unset">>, inliers |-> 0,
            world |-> FALSE, clustered |-> FALSE]

\* Frame(l_img, r_img, camera_model_)
Frame(seq, img, camera_model) ==
  [id |-> seq, desc |-> img, pose |-> <<0, "unset">>, inliers |-> 0,
   world |-> FALSE, clustered |-> FALSE]

\* Variant of ComposeTf: the odometry sample is not composed with the
\* session transform.
ComposeTf_NoTf(c_odom_robot, odom2camera) == <<c_odom_robot, "identity">>

\* tf::Transform c_odom_camera = c_odom_robot * odom2camera_;
ComposeTf(c_odom_robot, odom2camera) == <<c_odom_robot, odom2camera>>

setOdometryPose(fr, pose) == [fr EXCEPT !.pose = pose]
setInliers(fr, n) == [fr EXCEPT !.inliers = n]
computeWorldPoints(fr) == [fr EXCEPT !.world = TRUE]
clusterWorldpoints(fr) == [fr EXCEPT !.clustered = fr.world]

\* Tools::odomTotf(*odom_msg): the odometry sample of message set seq.
odomTotf(seq) == seq

\* ---------------------------------------------------------------- matcher
Min(a, b) == IF a < b THEN a ELSE b

\* Position of fixed-frame descriptor i among the neighbours of q, nearest
\* first (0 is the nearest).
RankOf(q, f_desc, i, tie) ==
  Cardinality({j \in 1..Len(f_desc) :
      \/ Hamming(q, f_desc[j]) < Hamming(q, f_desc[i])
      \/ /\ Hamming(q, f_desc[j]) = Hamming(q, f_desc[i])
         /\ IF tie = "first" THEN j < i ELSE j > i})

DMatch(queryIdx, trainIdx, distance) ==
  [queryIdx |-> queryIdx, trainIdx |-> trainIdx, distance |-> distance]

\* descriptor_matcher->knnMatch(c_desc, f_desc, knn_matches, knn, match_mask)
\* with an empty mask: per current descriptor its k nearest fixed-frame
\* descriptors by increasing distance, fewer when the fixed frame has fewer;
\* nothing at all when either descriptor set is empty.
knnMatch(c_desc, f_desc, k, tie) ==
  IF c_desc = <<>> \/ f_desc = <<>> THEN <<>>
  ELSE [m \in 1..Len(c_desc) |->
          [r \in 1..Min(k, Len(f_desc)) |->
             LET i == CHOOSE j \in 1..Len(f_desc) :
                        RankOf(c_desc[m], f_desc, j, tie) = r - 1
             IN  DMatch(m, i, Hamming(c_desc[m], f_desc[i]))]]

\* Variant of ratioTest: strict comparison.
ratioTest_Strict(d1, d2) == RatioDen * d1 < RatioNum * d2

\* knn_matches[m][0].distance <= knn_matches[m][1].distance * ratio
ratioTest(d1, d2) == RatioDen * d1 <= RatioNum * d2

\* The loop over knn_matches, from entry m on, appending to acc.
RECURSIVE ratioLoop(_, _, _)
ratioLoop(knn_matches, m, acc) ==
  IF m > Len(knn_matches) THEN acc
  ELSE IF Len(knn_matches[m]) < 2 THEN ratioLoop(knn_matches, m + 1, acc)
  ELSE IF ratioTest(knn_matches[m][1].distance, knn_matches[m][2].distance)
       THEN ratioLoop(knn_matches, m + 1, Append(acc, knn_matches[m][1]))
       ELSE ratioLoop(knn_matches, m + 1, acc)

\* The matching block of trackCurrentFrame: the new content of matches_.
matchDescriptors(c_desc, f_desc, tie) ==
  ratioLoop(knnMatch(c_desc, f_desc, knn, tie), 1, <<>>)

\* How many correspondences pass the ratio test, from entry m on.
RECURSIVE ratioCount(_, _)
ratioCount(knn_matches, m) ==
  IF m > Len(knn_matches) THEN 0
  ELSE ratioCount(knn_matches, m + 1)
       + (IF Len(knn_matches[m]) >= 2
             /\ ratioTest(knn_matches[m][1].distance, knn_matches[m][2].distance)
          THEN 1 ELSE 0)

\* ---------------------------------------------------------- pose estimate
\* rvec_/tvec_ before any solve: empty matrices.
NoPose == [by |-> 0, on |-> 0]

\* Variant of useGuess: the reset flag is not consulted.
useGuess_Always(reset_fixed_frame) == TRUE

\* bool use_guess = true; if (reset_fixed_frame_) use_guess = false;
useGuess(reset_fixed_frame) == ~reset_fixed_frame

\* What solvePnPRansac can return for n matched points: any set of indices
\* into the matched arrays.
SolverOutcomes(n) == SUBSET (1..n)

\* Variant of clearInliers: the inlier set of the previous cycle is kept.
clearInliers_Keeps(inliers) == inliers

\* matches_.clear();
clearMatches(matches) == <<>>
\* inliers_.clear();
clearInliers(inliers) == {}

\* Variant of trackCurrentFrame: the minimum-matches check is missing.
trackCurrentFrame_NoCheck(f, c, matches, inliers, rvec, reset_fixed_frame, knn_matches, sol) ==
  LET m == ratioLoop(knn_matches, 1, clearMatches(matches))
  IN  [matches |-> m, inliers |-> sol,
       rvec |-> [by |-> c.id, on |-> f.id],
       c_frame |-> setInliers(c, Cardinality(sol)),
       solved |-> TRUE, use_guess |-> useGuess(reset_fixed_frame),
       steps |-> <<"match", "solve">>]

\* Variant of trackCurrentFrame: after a solve the frame's inlier count is
\* taken from the correspondences instead of the solver's inlier set.
trackCurrentFrame_CountsMatches(f, c, matches, inliers, rvec, reset_fixed_frame, knn_matches, sol) ==
  LET m == ratioLoop(knn_matches, 1, clearMatches(matches))
  IN  IF Len(m) < MIN_INLIERS
      THEN [matches |-> m, inliers |-> clearInliers(inliers), rvec |-> rvec,
            c_frame |-> setInliers(c, 0),
            solved |-> FALSE, use_guess |-> FALSE,
            steps |-> <<"match", "short_circuit">>]
      ELSE [matches |-> m, inliers |-> sol,
            rvec |-> [by |-> c.id, on |-> f.id],
            c_frame |-> setInliers(c, Len(m)),
            solved |-> TRUE, use_guess |-> useGuess(reset_fixed_frame),
            steps |-> <<"match", "solve">>]

\* trackCurrentFrame(): the values it leaves in matches_, inliers_, rvec_
\* (with tvec_) and c_frame_, given the matches_ and inliers_ it finds on
\* entry, what knnMatch returned for the two frames' descriptors
\* (knn_matches) and the inlier set the solver writes to inliers_ if it is
\* called (sol).
trackCurrentFrame(f, c, matches, inliers, rvec, reset_fixed_frame, knn_matches, sol) ==
  LET m == ratioLoop(knn_matches, 1, clearMatches(matches))
  IN  IF Len(m) < MIN_INLIERS
      THEN [matches |-> m, inliers |-> clearInliers(inliers), rvec |-> rvec,
            c_frame |-> setInliers(c, 0),
            solved |-> FALSE, use_guess |-> FALSE,
            steps |-> <<"match", "short_circuit">>]
      ELSE [matches |-> m, inliers |-> sol,
            rvec |-> [by |-> c.id, on |-> f.id],
            c_frame |-> setInliers(c, Cardinality(sol)),
            solved |-> TRUE, use_guess |-> useGuess(reset_fixed_frame),
            steps |-> <<"match", "solve">>]

\* ------------------------------------------------------ fixed-frame policy
\* map_.addPoints(fr)
addPoints(map, fr) ==
  Append(map, [id |-> fr.id, world |-> fr.world, clustered |-> fr.clustered])

\* Variant of resetFixedFrame: the comparison admits the threshold itself.
resetFixedFrame_AtThreshold(state, f, c, inliers, map, grown) ==
  IF Cardinality(inliers) <= MIN_INLIERS
  THEN LET f1 == clusterWorldpoints(computeWorldPoints(c))
       IN  [state |-> state, f_frame |-> f1, reset |-> TRUE,
            map |-> addPoints(map, f1), replaced |-> TRUE,
            grown |-> grown + 1]
  ELSE [state |-> state, f_frame |-> f, reset |-> FALSE, map |-> map,
        replaced |-> FALSE, grown |-> grown]

\* Variant of resetFixedFrame: the points are added to the map before the
\* world points are computed and clustered.
resetFixedFrame_AddBeforeCompute(state, f, c, inliers, map, grown) ==
  IF Cardinality(inliers) < MIN_INLIERS
  THEN LET f1 == clusterWorldpoints(computeWorldPoints(c))
       IN  [state |-> state, f_frame |-> f1, reset |-> TRUE,
            map |-> addPoints(map, c), replaced |-> TRUE,
            grown |-> grown + 1]
  ELSE [state |-> state, f_frame |-> f, reset |-> FALSE, map |-> map,
        replaced |-> FALSE, grown |-> grown]

\* Variant of resetFixedFrame: the points of a kept fixed frame are added to
\* the map again.
resetFixedFrame_AddsKept(state, f, c, inliers, map, grown) ==
  IF Cardinality(inliers) < MIN_INLIERS
  THEN LET f1 == clusterWorldpoints(computeWorldPoints(c))
       IN  [state |-> state, f_frame |-> f1, reset |-> TRUE,
            map |-> addPoints(map, f1), replaced |-> TRUE,
            grown |-> grown + 1]
  ELSE [state |-> state, f_frame |-> f, reset |-> FALSE,
        map |-> addPoints(map, f), replaced |-> FALSE, grown |-> grown + 1]

\* Variant of resetFixedFrame: a replacement restarts the bootstrap.
resetFixedFrame_Rebootstrap(state, f, c, inliers, map, grown) ==
  IF Cardinality(inliers) < MIN_INLIERS
  THEN LET f1 == clusterWorldpoints(computeWorldPoints(c))
       IN  [state |-> INITIALIZING, f_frame |-> f1, reset |-> TRUE,
            map |-> addPoints(map, f1), replaced |-> TRUE,
            grown |-> grown + 1]
  ELSE [state |-> state, f_frame |-> f, reset |-> FALSE, map |-> map,
        replaced |-> FALSE, grown |-> grown]

\* The "Reset fixed frame?" block of needNewFixedFrame.
resetFixedFrame(state, f, c, inliers, map, grown) ==
  IF Cardinality(inliers) < MIN_INLIERS
  THEN LET f1 == clusterWorldpoints(computeWorldPoints(c))
       IN  [state |-> state, f_frame |-> f1, reset |-> TRUE,
            map |-> addPoints(map, f1), replaced |-> TRUE,
            grown |-> grown + 1]
  ELSE [state |-> state, f_frame |-> f, reset |-> FALSE, map |-> map,
        replaced |-> FALSE, grown |-> grown]

\* Variant of needNewFixedFrame: a replacement during the bootstrap raises
\* the reset flag.
needNewFixedFrame_FlagsBootstrap(state, f, c, inliers, reset_fixed_frame, map) ==
  IF state = INITIALIZING
  THEN IF Cardinality(inliers) < MIN_INLIERS
       THEN [state |-> state, f_frame |-> c, reset |-> TRUE,
             map |-> map, replaced |-> TRUE, grown |-> 0]
       ELSE LET f1 == clusterWorldpoints(computeWorldPoints(f))
            IN  resetFixedFrame(WORKING, f1, c, inliers, addPoints(map, f1), 1)
  ELSE resetFixedFrame(state, f, c, inliers, map, 0)

\* Variant of needNewFixedFrame: the bootstrap branch goes to WORKING without
\* adding the fixed frame's points to the map.
needNewFixedFrame_NoBootstrapMap(state, f, c, inliers, reset_fixed_frame, map) ==
  IF state = INITIALIZING
  THEN IF Cardinality(inliers) < MIN_INLIERS
       THEN [state |-> state, f_frame |-> c, reset |-> reset_fixed_frame,
             map |-> map, replaced |-> TRUE, grown |-> 0]
       ELSE resetFixedFrame(WORKING, f, c, inliers, map, 0)
  ELSE resetFixedFrame(state, f, c, inliers, map, 0)

\* needNewFixedFrame(): the values it leaves in state_, f_frame_,
\* reset_fixed_frame_ and map_; replaced tells whether f_frame_ = c_frame_
\* was executed, grown how many times addPoints was called.
needNewFixedFrame(state, f, c, inliers, reset_fixed_frame, map) ==
  IF state = INITIALIZING
  THEN IF Cardinality(inliers) < MIN_INLIERS
       THEN [state |-> state, f_frame |-> c, reset |-> reset_fixed_frame,
             map |-> map, replaced |-> TRUE, grown |-> 0]
       ELSE LET f1 == clusterWorldpoints(computeWorldPoints(f))
            IN  resetFixedFrame(WORKING, f1, c, inliers, addPoints(map, f1), 1)
  ELSE resetFixedFrame(state, f, c, inliers, map, 0)

\* ---------------------------------------------------------------- publisher
\* f_pub_->update(this): what the publisher reads from the tracker at the
\* moment of the call.
update(pub, state, f, c, inliers, reset_fixed_frame) ==
  [n |-> pub.n + 1, state |-> state, fixed |-> f.id, current |-> c.id,
   inliers |-> Cardinality(inliers), reset |-> reset_fixed_frame]

\* ------------------------------------------------------------------- state
VARIABLES
  state_,              \* tracking state
  odom2camera_,        \* session transform: "unset", "identity" or "tf"
  camera_model_,       \* 0, or the message set whose camera info built it
  graph_,              \* what the graph was given, and how often
  f_frame_,            \* fixed frame
  c_frame_,            \* current frame
  matches_,            \* correspondences of the last cycle
  inliers_,            \* inlier indices of the last cycle
  rvec_,               \* rvec_/tvec_: which solve wrote them
  reset_fixed_frame_,  \* reset flag
  map_,                \* frames whose points were added to the map
  f_pub_,              \* last observation of the publisher
  hist,                \* counters over the whole run
  cycle,               \* record of the last msgsCallback
  spinner              \* callback thread: inputs arrived, calls in flight

vars == <<state_, odom2camera_, camera_model_, graph_, f_frame_, c_frame_,
          matches_, inliers_, rvec_, reset_fixed_frame_, map_, f_pub_, hist,
          cycle, spinner>>

NoCycle == [kind |-> "none", seq |-> 0, pre_state |-> NOT_INITIALIZED,
            pre_fixed |-> NoFrame, pre_reset |-> FALSE, pre_rvec |-> NoPose,
            pre_map |-> 0, pre_inliers |-> 0, solved |-> FALSE, use_guess |-> FALSE,
            replaced |-> FALSE, prev_replaced |-> FALSE, grown |-> 0,
            steps |-> <<>>]

\* No input arrived, no call of msgsCallback started.
NoSpin == [arrived |-> 0, started |-> 0, finished |-> 0, calls |-> {}]

\* Tracking::Tracking and the first statement of run().
Init ==
  /\ state_ = NOT_INITIALIZED
  /\ odom2camera_ = "unset"
  /\ camera_model_ = 0
  /\ graph_ = [camera2odom |-> "unset", cameraMatrix |-> 0,
               nCamera2Odom |-> 0, nCameraMatrix |-> 0]
  /\ f_frame_ = NoFrame
  /\ c_frame_ = NoFrame
  /\ matches_ = <<>>
  /\ inliers_ = {}
  /\ rvec_ = NoPose
  /\ reset_fixed_frame_ = FALSE
  /\ map_ = <<>>
  /\ f_pub_ = [n |-> 0, state |-> NOT_INITIALIZED, fixed |-> 0, current |-> 0,
               inliers |-> 0, reset |-> FALSE]
  /\ hist = [inputs |-> 0, tf_queries |-> 0, tf_writes |-> 0, tf_ok |-> 0,
             cam_writes |-> 0, to_working |-> 0, dropped |-> {}]
  /\ cycle = NoCycle
  /\ spinner = NoSpin

\* Variant of getOdom2CameraTf: the looked-up transform is not stored.
getOdom2CameraTf_Identity(ok) == "identity"

\* getOdom2CameraTf: the value left in the transform argument; ok tells
\* whether lookupTransform returned (TRUE) or threw (FALSE).
getOdom2CameraTf(ok) == IF ok THEN "tf" ELSE "identity"

\* The start-of-callback part of the record of a cycle.
CycleStart(kind) ==
  [NoCycle EXCEPT !.kind = kind, !.seq = hist.inputs + 1,
                  !.pre_state = state_, !.pre_fixed = f_frame_,
                  !.pre_reset = reset_fixed_frame_, !.pre_rvec = rvec_,
                  !.pre_map = Len(map_),
                  !.pre_inliers = Cardinality(inliers_),
                  !.prev_replaced = cycle.replaced]

\* Variant of needsInit: the first branch is taken until WORKING.
needsInit_UntilWorking(state) == state # WORKING

\* if (state_ == NOT_INITIALIZED) ... else ...
needsInit(state) == state = NOT_INITIALIZED

\* Variant of lookupAborts: the result of the lookup is ignored.
lookupAborts_Never(ok) == FALSE

\* if (!getOdom2CameraTf(...)) { ROS_WARN(...); return; }
lookupAborts(ok) == ~ok

\* Variant of trackingCycle: the publisher is updated only when the solver
\* was called.
trackingCycle_PublishOnSolve(state, f, c0, matches, inliers, rvec, reset_fixed_frame, map, pub, knn_matches, sol) ==
  LET tr == trackCurrentFrame(f, c0, matches, inliers, rvec, reset_fixed_frame, knn_matches, sol)
      pb == IF tr.solved
            THEN update(pub, state, f, tr.c_frame, tr.inliers, reset_fixed_frame)
            ELSE pub
      nf == needNewFixedFrame(state, f, tr.c_frame, tr.inliers,
                              reset_fixed_frame, map)
  IN  [c_frame |-> tr.c_frame, matches |-> tr.matches, inliers |-> tr.inliers,
       rvec |-> tr.rvec, pub |-> pb, state |-> nf.state,
       f_frame |-> nf.f_frame, reset |-> nf.reset, map |-> nf.map,
       solved |-> tr.solved, use_guess |-> tr.use_guess,
       replaced |-> nf.replaced, grown |-> nf.grown,
       steps |-> tr.steps \o <<"publish", "policy">>]

\* Variant of trackingCycle: the publisher is updated after the policy.
trackingCycle_PublishLast(state, f, c0, matches, inliers, rvec, reset_fixed_frame, map, pub, knn_matches, sol) ==
  LET tr == trackCurrentFrame(f, c0, matches, inliers, rvec, reset_fixed_frame, knn_matches, sol)
      nf == needNewFixedFrame(state, f, tr.c_frame, tr.inliers,
                              reset_fixed_frame, map)
      pb == update(pub, nf.state, nf.f_frame, tr.c_frame, tr.inliers, nf.reset)
  IN  [c_frame |-> tr.c_frame, matches |-> tr.matches, inliers |-> tr.inliers,
       rvec |-> tr.rvec, pub |-> pb, state |-> nf.state,
       f_frame |-> nf.f_frame, reset |-> nf.reset, map |-> nf.map,
       solved |-> tr.solved, use_guess |-> tr.use_guess,
       replaced |-> nf.replaced, grown |-> nf.grown,
       steps |-> tr.steps \o <<"policy", "publish">>]

\* trackCurrentFrame(); f_pub_->update(this); needNewFixedFrame();
\* the values the three calls leave behind, in the order of the calls.
trackingCycle(state, f, c0, matches, inliers, rvec, reset_fixed_frame, map, pub, knn_matches, sol) ==
  LET tr == trackCurrentFrame(f, c0, matches, inliers, rvec, reset_fixed_frame, knn_matches, sol)
      pb == update(pub, state, f, tr.c_frame, tr.inliers, reset_fixed_frame)
      nf == needNewFixedFrame(state, f, tr.c_frame, tr.inliers,
                              reset_fixed_frame, map)
  IN  [c_frame |-> tr.c_frame, matches |-> tr.matches, inliers |-> tr.inliers,
       rvec |-> tr.rvec, pub |-> pb, state |-> nf.state,
       f_frame |-> nf.f_frame, reset |-> nf.reset, map |-> nf.map,
       solved |-> tr.solved, use_guess |-> tr.use_guess,
       replaced |-> nf.replaced, grown |-> nf.grown,
       steps |-> tr.steps \o <<"publish", "policy">>]

\* msgsCallback while NOT_INITIALIZED, the transform lookup throwing.
msgsCallbackNoTf ==
  /\ hist.inputs < MaxInputs
  /\ needsInit(state_)
  /\ lookupAborts(FALSE)
  /\ odom2camera_' = getOdom2CameraTf(FALSE)
  /\ hist' = [hist EXCEPT !.inputs = @ + 1, !.tf_queries = @ + 1,
                          !.tf_writes = @ + 1]
  /\ cycle' = [CycleStart("lookup_failed") EXCEPT !.steps = <<"lookup">>]
  /\ UNCHANGED <<state_, camera_model_, graph_, f_frame_, c_frame_, matches_,
                 inliers_, rvec_, reset_fixed_frame_, map_, f_pub_, spinner>>

\* msgsCallback while NOT_INITIALIZED, going on past the transform lookup
\* (ok is the lookup's result).
msgsCallbackInit(img, ok) ==
  /\ hist.inputs < MaxInputs
  /\ needsInit(state_)
  /\ ~lookupAborts(ok)
  /\ LET seq == hist.inputs + 1
         tf == getOdom2CameraTf(ok)
         cam == seq
     IN  /\ odom2camera_' = tf
         /\ camera_model_' = cam
         /\ graph_' = [camera2odom |-> <<"inverse", tf>>, cameraMatrix |-> cam,
                       nCamera2Odom |-> graph_.nCamera2Odom + 1,
                       nCameraMatrix |-> graph_.nCameraMatrix + 1]
         /\ f_frame_' = setOdometryPose(Frame(seq, img, cam),
                                        ComposeTf(odomTotf(seq), tf))
         /\ state_' = INITIALIZING
         /\ hist' = [hist EXCEPT !.inputs = @ + 1, !.tf_queries = @ + 1,
                                 !.tf_writes = @ + 1,
                                 !.tf_ok = IF ok THEN seq ELSE @,
                                 !.cam_writes = @ + 1]
         /\ cycle' = [CycleStart(IF ok THEN "init" ELSE "lookup_failed") EXCEPT
                        !.steps = <<"lookup", "camera", "graph", "frame">>]
  /\ UNCHANGED <<c_frame_, matches_, inliers_, rvec_, reset_fixed_frame_,
                 map_, f_pub_, spinner>>

\* msgsCallback in INITIALIZING and WORKING: one tracking cycle.
msgsCallbackTrack(img, tie) ==
  /\ hist.inputs < MaxInputs
  /\ ~needsInit(state_)
  /\ LET seq == hist.inputs + 1
         c0 == setOdometryPose(Frame(seq, img, camera_model_),
                               ComposeTf(odomTotf(seq), odom2camera_))
     IN  \E km \in {knnMatch(c0.desc, f_frame_.desc, knn, tie)} :
         \E sol \in (IF ratioCount(km, 1) < MIN_INLIERS THEN {{}}
                     ELSE SolverOutcomes(ratioCount(km, 1))) :
         \E r \in {trackingCycle(state_, f_frame_, c0, matches_, inliers_, rvec_,
                                 reset_fixed_frame_, map_, f_pub_, km, sol)} :
               /\ c_frame_' = r.c_frame
               /\ matches_' = r.matches
               /\ inliers_' = r.inliers
               /\ rvec_' = r.rvec
               /\ f_pub_' = r.pub
               /\ state_' = r.state
               /\ f_frame_' = r.f_frame
               /\ reset_fixed_frame_' = r.reset
               /\ map_' = r.map
               /\ hist' = [hist EXCEPT
                     !.inputs = @ + 1,
                     !.to_working = @ + (IF state_ # WORKING /\ r.state = WORKING
                                         THEN 1 ELSE 0),
                     !.dropped = @ \cup (IF r.state = INITIALIZING /\ r.replaced
                                         THEN {f_frame_.id} ELSE {})]
               /\ cycle' = [CycleStart("track") EXCEPT
                     !.solved = r.solved, !.use_guess = r.use_guess,
                     !.replaced = r.replaced, !.grown = r.grown,
                     !.steps = <<"frame">> \o r.steps]
  /\ UNCHANGED <<odom2camera_, camera_model_, graph_, spinner>>

msgsCallback ==
  \/ msgsCallbackNoTf
  \/ \E img \in Images, ok \in BOOLEAN : msgsCallbackInit(img, ok)
  \/ \E img \in Images, tie \in TieOrders : msgsCallbackTrack(img, tie)

Next == msgsCallback

Spec == Init /\ [][Next]_vars

\* ------------------------------------------- the matcher on its own inputs
\* The tracker entering its first tracking cycle: a fixed frame from the
\* first message set, a current frame built from the second, each with any
\* descriptor list over MatchPool.
InitMatch ==
  /\ state_ = INITIALIZING
  /\ odom2camera_ = getOdom2CameraTf(TRUE)
  /\ camera_model_ = 1
  /\ graph_ = [camera2odom |-> <<"inverse", getOdom2CameraTf(TRUE)>>,
               cameraMatrix |-> 1, nCamera2Odom |-> 1, nCameraMatrix |-> 1]
  /\ f_frame_ \in {setOdometryPose(Frame(1, img, 1),
                                   ComposeTf(odomTotf(1), getOdom2CameraTf(TRUE))) :
                     img \in SeqsUpTo(MatchPool, MaxDesc)}
  /\ c_frame_ \in {setOdometryPose(Frame(2, img, 1),
                                   ComposeTf(odomTotf(2), getOdom2CameraTf(TRUE))) :
                     img \in SeqsUpTo(MatchPool, MaxQuery)}
  /\ matches_ = <<>>
  /\ inliers_ = {}
  /\ rvec_ = NoPose
  /\ reset_fixed_frame_ = FALSE
  /\ map_ = <<>>
  /\ f_pub_ = [n |-> 0, state |-> NOT_INITIALIZED, fixed |-> 0, current |-> 0,
               inliers |-> 0, reset |-> FALSE]
  /\ hist = [inputs |-> 1, tf_queries |-> 1, tf_writes |-> 1, tf_ok |-> 1,
             cam_writes |-> 1, to_working |-> 0, dropped |-> {}]
  /\ cycle = [NoCycle EXCEPT !.kind = "init", !.seq = 1]
  /\ spinner = [NoSpin EXCEPT !.arrived = 2, !.started = 1, !.finished = 1]

\* The matching block of trackCurrentFrame applied to the two frames.
matchStep(tie) ==
  /\ cycle.kind = "init"
  /\ matches_' = matchDescriptors(c_frame_.desc, f_frame_.desc, tie)
  /\ cycle' = [cycle EXCEPT !.kind = "match", !.seq = 2,
                            !.pre_state = state_, !.pre_fixed = f_frame_,
                            !.steps = <<"match">>]
  /\ UNCHANGED <<state_, odom2camera_, camera_model_, graph_, f_frame_,
                 c_frame_, inliers_, rvec_, reset_fixed_frame_, map_, f_pub_,
                 hist, spinner>>

NextMatch == \E tie \in TieOrders : matchStep(tie)

SpecMatch == InitMatch /\ [][NextMatch]_vars

\* ------------------------------------------- the callback, step by step
\* run() registers msgsCallback with the synchronizer and enters ros::spin():
\* one thread takes the synchronized message sets one after the other and
\* calls msgsCallback for each.  Here the callback is taken statement by
\* statement, so that an overlap of two calls would be visible.
MaxSpinInputs == 4

\* Variant of spinnerFree: several spinner threads, a call may start while
\* another is running.
spinnerFree_MultiThreaded(calls) == TRUE

\* ros::spin(): the thread takes the next callback when the previous one has
\* returned.
spinnerFree(calls) == calls = {}

\* A call of msgsCallback for message set seq, about to branch on state_.
Call(seq) == [seq |-> seq, pc |-> "entry", state |-> NOT_INITIALIZED,
              fixed |-> 0, reset |-> FALSE]

\* The call k moved on to position pc.
moveTo(k, pc) ==
  spinner' = [spinner EXCEPT !.calls = (@ \ {k}) \cup {[k EXCEPT !.pc = pc]}]

\* The call k returns.
return(k) ==
  spinner' = [spinner EXCEPT !.calls = @ \ {k}, !.finished = @ + 1]

\* The synchronizer completes a message set.
syncArrives ==
  /\ spinner.arrived < MaxSpinInputs
  /\ spinner' = [spinner EXCEPT !.arrived = @ + 1]
  /\ UNCHANGED <<state_, odom2camera_, camera_model_, graph_, f_frame_,
                 c_frame_, matches_, inliers_, rvec_, reset_fixed_frame_, map_,
                 f_pub_, hist, cycle>>

\* The spinner calls msgsCallback with the next message set.
spinDispatch ==
  /\ spinnerFree(spinner.calls)
  /\ spinner.started < spinner.arrived
  /\ spinner' = [spinner EXCEPT !.started = @ + 1,
                                !.calls = @ \cup {Call(spinner.started + 1)}]
  /\ UNCHANGED <<state_, odom2camera_, camera_model_, graph_, f_frame_,
                 c_frame_, matches_, inliers_, rvec_, reset_fixed_frame_, map_,
                 f_pub_, hist, cycle>>

\* First branch, the transform lookup throwing: warn and return.
stepLookupFails(k) ==
  /\ k.pc = "entry"
  /\ needsInit(state_)
  /\ lookupAborts(FALSE)
  /\ odom2camera_' = getOdom2CameraTf(FALSE)
  /\ return(k)
  /\ UNCHANGED <<state_, camera_model_, graph_, f_frame_, c_frame_, matches_,
                 inliers_, rvec_, reset_fixed_frame_, map_, f_pub_, hist, cycle>>

\* First branch past the lookup: camera model, graph, fixed frame, state.
stepInit(k, img, ok) ==
  /\ k.pc = "entry"
  /\ needsInit(state_)
  /\ ~lookupAborts(ok)
  /\ LET tf == getOdom2CameraTf(ok)
     IN  /\ odom2camera_' = tf
         /\ camera_model_' = k.seq
         /\ graph_' = [camera2odom |-> <<"inverse", tf>>, cameraMatrix |-> k.seq,
                       nCamera2Odom |-> graph_.nCamera2Odom + 1,
                       nCameraMatrix |-> graph_.nCameraMatrix + 1]
         /\ f_frame_' = setOdometryPose(Frame(k.seq, img, k.seq),
                                        ComposeTf(odomTotf(k.seq), tf))
         /\ state_' = INITIALIZING
  /\ return(k)
  /\ UNCHANGED <<c_frame_, matches_, inliers_, rvec_, reset_fixed_frame_,
                 map_, f_pub_, hist, cycle>>

\* Second branch: the current frame is built and given its pose.  The call
\* notes the state, fixed frame and reset flag it found.
stepFrame(k, img) ==
  /\ k.pc = "entry"
  /\ ~needsInit(state_)
  /\ c_frame_' = setOdometryPose(Frame(k.seq, img, camera_model_),
                                 ComposeTf(odomTotf(k.seq), odom2camera_))
  /\ spinner' = [spinner EXCEPT !.calls = (@ \ {k}) \cup
                    {[k EXCEPT !.pc = "track", !.state = state_,
                               !.fixed = f_frame_.id,
                               !.reset = reset_fixed_frame_]}]
  /\ UNCHANGED <<state_, odom2camera_, camera_model_, graph_, f_frame_,
                 matches_, inliers_, rvec_, reset_fixed_frame_, map_, f_pub_,
                 hist, cycle>>

\* trackCurrentFrame();
stepTrack(k, tie) ==
  /\ k.pc = "track"
  /\ \E km \in {knnMatch(c_frame_.desc, f_frame_.desc, knn, tie)} :
     \E sol \in (IF ratioCount(km, 1) < MIN_INLIERS THEN {{}}
                 ELSE SolverOutcomes(ratioCount(km, 1))) :
     \E tr \in {trackCurrentFrame(f_frame_, c_frame_, matches_, inliers_, rvec_,
                                  reset_fixed_frame_, km, sol)} :
       /\ c_frame_' = tr.c_frame
       /\ matches_' = tr.matches
       /\ inliers_' = tr.inliers
       /\ rvec_' = tr.rvec
  /\ moveTo(k, "publish")
  /\ UNCHANGED <<state_, odom2camera_, camera_model_, graph_, f_frame_,
                 reset_fixed_frame_, map_, f_pub_, hist, cycle>>

\* f_pub_->update(this);
stepPublish(k) ==
  /\ k.pc = "publish"
  /\ f_pub_' = update(f_pub_, state_, f_frame_, c_frame_, inliers_,
                      reset_fixed_frame_)
  /\ moveTo(k, "policy")
  /\ UNCHANGED <<state_, odom2camera_, camera_model_, graph_, f_frame_,
                 c_frame_, matches_, inliers_, rvec_, reset_fixed_frame_, map_,
                 hist, cycle>>

\* needNewFixedFrame(); and the end of msgsCallback.
stepPolicy(k) ==
  /\ k.pc = "policy"
  /\ \E nf \in {needNewFixedFrame(state_, f_frame_, c_frame_, inliers_,
                                   reset_fixed_frame_, map_)} :
       /\ state_' = nf.state
       /\ f_frame_' = nf.f_frame
       /\ reset_fixed_frame_' = nf.reset
       /\ map_' = nf.map
  /\ return(k)
  /\ UNCHANGED <<odom2camera_, camera_model_, graph_, c_frame_, matches_,
                 inliers_, rvec_, f_pub_, hist, cycle>>

NextSpin ==
  \/ syncArrives
  \/ spinDispatch
  \/ \E k \in spinner.calls : stepLookupFails(k)
  \/ \E k \in spinner.calls, img \in Images, ok \in BOOLEAN : stepInit(k, img, ok)
  \/ \E k \in spinner.calls, img \in Images : stepFrame(k, img)
  \/ \E k \in spinner.calls, tie \in TieOrders : stepTrack(k, tie)
  \/ \E k \in spinner.calls : stepPublish(k)
  \/ \E k \in spinner.calls : stepPolicy(k)

SpecSpin == Init /\ [][NextSpin]_vars

\* ------------------------------------------------------------- properties
track == cycle.kind = "track"

\* Equality of two frames by value, up to the world points computed later.
SameFrame(a, b) ==
  /\ a.id = b.id
  /\ a.desc = b.desc
  /\ a.pose = b.pose
  /\ a.inliers = b.inliers

\* C1. Initialization gating: an input processed while NOT_INITIALIZED whose
\* transform lookup fails leaves the state NOT_INITIALIZED, stores no fixed
\* frame, configures nothing in the graph, and runs no matching, no
\* publishing and no fixed-frame policy.
C1_InitializationGating ==
  cycle.kind = "lookup_failed" =>
    /\ cycle.pre_state = NOT_INITIALIZED
    /\ state_ = NOT_INITIALIZED
    /\ f_frame_ = NoFrame
    /\ c_frame_ = NoFrame
    /\ camera_model_ = 0
    /\ graph_.nCamera2Odom = 0 /\ graph_.nCameraMatrix = 0
    /\ graph_.camera2odom = "unset"
    /\ matches_ = <<>> /\ inliers_ = {} /\ rvec_ = NoPose
    /\ f_pub_.n = 0
    /\ map_ = <<>> /\ reset_fixed_frame_ = FALSE
    /\ cycle.steps = <<"lookup">>

\* Two inputs in a row whose lookup failed.
C1_Witness ==
  /\ cycle.kind = "lookup_failed"
  /\ hist.inputs = 2
  /\ hist.tf_queries = 2

\* C2. Fixed-frame replacement policy: after a tracking cycle the fixed frame
\* is the cycle's current frame if the cycle's inlier count is below
\* MIN_INLIERS, and the frame that was fixed before the cycle otherwise.
C2_FixedFrameReplacement ==
  track =>
    IF Cardinality(inliers_) < MIN_INLIERS
    THEN SameFrame(f_frame_, c_frame_) /\ cycle.replaced
    ELSE SameFrame(f_frame_, cycle.pre_fixed) /\ ~cycle.replaced
         /\ f_frame_.id # c_frame_.id

\* A WORKING cycle in which the solver ran, found too few inliers, and the
\* frame was replaced, following a cycle that kept its fixed frame.
C2_Witness ==
  /\ track
  /\ cycle.pre_state = WORKING
  /\ cycle.solved
  /\ Cardinality(inliers_) < MIN_INLIERS
  /\ Cardinality(inliers_) > 0
  /\ ~cycle.prev_replaced
  /\ f_frame_.id = c_frame_.id

\* C3. Bootstrap-to-working transition: the state goes from INITIALIZING to
\* WORKING at most once, in exactly the INITIALIZING cycles whose inlier
\* count reaches MIN_INLIERS (hence in the first such cycle); the map grows
\* in that cycle by the fixed frame, never before it, and that frame is not
\* added again later.
C3_BootstrapToWorking ==
  /\ hist.to_working <= 1
  /\ state_ # WORKING => map_ = <<>> /\ hist.to_working = 0
  /\ state_ = WORKING =>
       /\ hist.to_working = 1
       /\ Len(map_) >= 1
       /\ \A i \in 2..Len(map_) : map_[i].id # map_[1].id
  /\ (track /\ cycle.pre_state = INITIALIZING) =>
       /\ state_ = WORKING <=> Cardinality(inliers_) >= MIN_INLIERS
       /\ state_ = WORKING =>
            /\ cycle.pre_map = 0
            /\ cycle.grown = 1
            /\ Len(map_) = 1
            /\ map_[1].id = cycle.pre_fixed.id
            /\ map_[1].world /\ map_[1].clustered
       /\ state_ # WORKING => cycle.grown = 0
  /\ (track /\ cycle.pre_state = WORKING) =>
       \A i \in (cycle.pre_map + 1)..Len(map_) : map_[i].id # map_[1].id

\* WORKING reached after a bootstrap that first replaced its fixed frame, and
\* the map has grown again since the transition.
C3_Witness ==
  /\ state_ = WORKING
  /\ hist.to_working = 1
  /\ Len(map_) = 2
  /\ map_[1].id > hist.tf_ok

\* C4. Warm-start suppression, as claimed for every state: when the previous
\* cycle replaced the fixed frame with its current frame, the solver call of
\* this cycle is made without a guess.
C4_WarmStartSuppression ==
  (track /\ cycle.prev_replaced /\ cycle.solved) => ~cycle.use_guess

\* C4 with the estimate of an earlier solve present, as the claim words it.
C4_WarmStartSuppressionWithEstimate ==
  (track /\ cycle.prev_replaced /\ cycle.solved /\ cycle.pre_rvec # NoPose)
    => ~cycle.use_guess

\* C5. Short-circuit on sparse correspondences: with fewer than MIN_INLIERS
\* accepted correspondences the solver is not called, rvec_/tvec_ keep their
\* values, the current frame's inlier count is 0, and the policy sees an
\* empty inlier set (so it replaces the fixed frame).
C5_ShortCircuit ==
  (track /\ Len(matches_) < MIN_INLIERS) =>
    /\ ~cycle.solved
    /\ ~cycle.use_guess
    /\ rvec_ = cycle.pre_rvec
    /\ c_frame_.inliers = 0
    /\ inliers_ = {}
    /\ cycle.replaced
    /\ cycle.steps = <<"frame", "match", "short_circuit", "publish", "policy">>

\* A cycle with some, but too few, correspondences, while an estimate of an
\* earlier solve with inliers is held.
C5_Witness ==
  /\ track
  /\ Len(matches_) > 0
  /\ Len(matches_) < MIN_INLIERS
  /\ cycle.pre_rvec # NoPose
  /\ cycle.pre_fixed.inliers > 0

\* Distance from current-frame descriptor m to fixed-frame descriptor i.
Dist(m, i) == Hamming(c_frame_.desc[m], f_frame_.desc[i])

\* Best distance of current-frame descriptor m.
BestDist(m) ==
  CHOOSE d \in {Dist(m, i) : i \in 1..Len(f_frame_.desc)} :
    \A i \in 1..Len(f_frame_.desc) : d <= Dist(m, i)

\* Second-best distance of current-frame descriptor m: the least distance
\* that at least two fixed-frame descriptors are within.
SecondDist(m) ==
  CHOOSE d \in {Dist(m, i) : i \in 1..Len(f_frame_.desc)} :
    /\ Cardinality({i \in 1..Len(f_frame_.desc) : Dist(m, i) <= d}) >= 2
    /\ \A i \in 1..Len(f_frame_.desc) :
         Cardinality({j \in 1..Len(f_frame_.desc) : Dist(m, j) <= Dist(m, i)}) >= 2
           => d <= Dist(m, i)

\* Current-frame descriptors the ratio test accepts: d1 <= 0.9 * d2.
AcceptedQueries ==
  {m \in 1..Len(c_frame_.desc) :
     /\ Len(f_frame_.desc) >= 2
     /\ 10 * BestDist(m) <= 9 * SecondDist(m)}

\* C6. Ratio-test correctness: matches_ lists, in current-frame descriptor
\* order, a nearest neighbour of exactly those current-frame descriptors that
\* have two neighbours with d1 <= 0.9 * d2 (equality included); descriptors
\* with fewer than two neighbours give nothing; fixed-frame indices are not
\* deduplicated.
C6_RatioTest ==
  cycle.kind = "match" =>
    /\ Len(matches_) = Cardinality(AcceptedQueries)
    /\ \A k \in 1..Len(matches_) :
         /\ matches_[k].queryIdx \in AcceptedQueries
         /\ matches_[k].trainIdx \in 1..Len(f_frame_.desc)
         /\ matches_[k].distance = BestDist(matches_[k].queryIdx)
         /\ Dist(matches_[k].queryIdx, matches_[k].trainIdx)
              = BestDist(matches_[k].queryIdx)
    /\ \A k \in 1..(Len(matches_) - 1) :
         matches_[k].queryIdx < matches_[k + 1].queryIdx

\* Two current-frame descriptors matched to the same fixed-frame descriptor,
\* the first of them exactly on the boundary d1 = 0.9 * d2 with d1 > 0.
C6_Witness ==
  /\ cycle.kind = "match"
  /\ Len(matches_) = 2
  /\ matches_[1].trainIdx = matches_[2].trainIdx
  /\ matches_[1].distance > 0
  /\ 10 * matches_[1].distance = 9 * SecondDist(matches_[1].queryIdx)

Resolved == <<"inverse", "tf">>

\* C7 as claimed: camera model, session transform and the graph's two
\* properties are written exactly once, during the first received message
\* set, and never again.
C7_SetOnceOnFirstInput ==
  hist.inputs >= 1 =>
    /\ hist.tf_writes = 1
    /\ hist.cam_writes = 1
    /\ camera_model_ = 1
    /\ graph_.nCamera2Odom = 1
    /\ graph_.nCameraMatrix = 1

\* C7, amended. The camera model and the graph's camera-to-odometry transform
\* and camera matrix are written exactly once, during the first input whose
\* transform lookup succeeds, and never again; odom2camera_ is written by
\* every lookup up to and including that one (identity on each failure) and
\* never afterwards.
C7_SetOnceOnFirstResolved ==
  /\ state_ = NOT_INITIALIZED =>
       /\ hist.cam_writes = 0 /\ camera_model_ = 0
       /\ graph_.nCamera2Odom = 0 /\ graph_.nCameraMatrix = 0
       /\ graph_.camera2odom = "unset" /\ graph_.cameraMatrix = 0
       /\ hist.tf_ok = 0
       /\ hist.tf_writes = hist.inputs
       /\ odom2camera_ = IF hist.inputs = 0 THEN "unset" ELSE "identity"
  /\ state_ # NOT_INITIALIZED =>
       /\ hist.tf_ok >= 1
       /\ hist.cam_writes = 1 /\ camera_model_ = hist.tf_ok
       /\ graph_.nCamera2Odom = 1 /\ graph_.nCameraMatrix = 1
       /\ graph_.camera2odom = Resolved /\ graph_.cameraMatrix = hist.tf_ok
       /\ hist.tf_writes = hist.tf_ok
       /\ odom2camera_ = "tf"

\* Two failed lookups, then a successful one, then tracking up to WORKING.
C7_Witness ==
  /\ hist.tf_ok = 3
  /\ state_ = WORKING
  /\ cycle.pre_state = WORKING

\* C8 as claimed: the resolver is queried exactly once, on the first received
\* message set.
C8_QueriedOnceOnFirstInput ==
  hist.inputs >= 1 => hist.tf_queries = 1

\* C8, amended. The resolver is queried once for every input received while
\* NOT_INITIALIZED, that is up to and including the first input whose lookup
\* succeeds; from then on every frame is stamped with the cached transform
\* and the resolver is not queried again.
C8_QueriedUntilResolved ==
  /\ state_ = NOT_INITIALIZED => hist.tf_queries = hist.inputs
  /\ state_ # NOT_INITIALIZED =>
       /\ hist.tf_queries = hist.tf_ok
       /\ f_frame_.pose = <<odomTotf(f_frame_.id), "tf">>
       /\ track =>
            /\ c_frame_.pose = <<odomTotf(cycle.seq), "tf">>
            /\ \A k \in 1..Len(cycle.steps) : cycle.steps[k] # "lookup"

\* A failed lookup, a successful one, and two tracking cycles after it.
C8_Witness ==
  /\ hist.tf_ok = 2
  /\ hist.tf_queries = 2
  /\ hist.inputs = 4
  /\ track

Rank(state) ==
  CASE state = NOT_INITIALIZED -> 0
    [] state = INITIALIZING -> 1
    [] state = WORKING -> 2

\* C9. The tracking state only moves forward, one step at a time,
\* NOT_INITIALIZED -> INITIALIZING -> WORKING; WORKING is kept by every input,
\* replacement of the fixed frame included; and in every state the next input
\* is accepted and processed.
C9_ForwardOnly ==
  /\ state_ \in States
  /\ cycle.kind # "none" =>
       /\ Rank(cycle.pre_state) <= Rank(state_)
       /\ Rank(state_) <= Rank(cycle.pre_state) + 1
       /\ cycle.pre_state = WORKING => state_ = WORKING
       /\ cycle.seq = hist.inputs
       /\ cycle.pre_state = NOT_INITIALIZED <=> ~track
       /\ track => c_frame_.id = cycle.seq /\ f_pub_.current = cycle.seq
       /\ cycle.kind = "init" => f_frame_.id = cycle.seq
  /\ hist.inputs < MaxInputs => ENABLED msgsCallback

\* A WORKING cycle that replaced the fixed frame and stayed WORKING.
C9_Witness ==
  /\ track
  /\ cycle.pre_state = WORKING
  /\ cycle.replaced
  /\ state_ = WORKING
  /\ ENABLED msgsCallback

\* C10 as claimed: the publisher is updated after the fixed-frame policy and
\* observes the post-policy fixed frame, state and reset flag.
C10_PublishAfterPolicy ==
  track =>
    /\ f_pub_.fixed = f_frame_.id
    /\ f_pub_.state = state_
    /\ f_pub_.reset = reset_fixed_frame_

\* C10, amended. Within a tracking cycle the order is frame construction,
\* matching, motion estimation, publish, fixed-frame policy: the publisher
\* observes the cycle's current frame and inlier count together with the
\* fixed frame, state and reset flag as they were before the policy ran.
C10_PublishBeforePolicy ==
  track =>
    /\ f_pub_.current = c_frame_.id
    /\ f_pub_.inliers = c_frame_.inliers
    /\ f_pub_.fixed = cycle.pre_fixed.id
    /\ f_pub_.state = cycle.pre_state
    /\ f_pub_.reset = cycle.pre_reset
    /\ Len(cycle.steps) = 5
    /\ cycle.steps[1] = "frame"
    /\ cycle.steps[2] = "match"
    /\ cycle.steps[3] \in {"solve", "short_circuit"}
    /\ cycle.steps[4] = "publish"
    /\ cycle.steps[5] = "policy"

\* A WORKING cycle whose policy changed both the fixed frame and the reset
\* flag after the publisher had been updated.
C10_Witness ==
  /\ track
  /\ cycle.pre_state = WORKING
  /\ f_pub_.fixed # f_frame_.id
  /\ f_pub_.reset # reset_fixed_frame_

\* C11. TransformUnavailable is recoverable: after any number of inputs whose
\* lookup failed, the first input whose lookup succeeds is handled as the
\* first valid input: session transform and camera model are set from it,
\* the fixed frame is the frame built from it, stamped with its odometry
\* pose, and the state is INITIALIZING.
C11_RecoverableLookup ==
  cycle.kind = "init" =>
    /\ cycle.pre_state = NOT_INITIALIZED
    /\ state_ = INITIALIZING
    /\ hist.tf_ok = cycle.seq
    /\ hist.tf_queries = cycle.seq
    /\ odom2camera_ = "tf"
    /\ camera_model_ = cycle.seq
    /\ graph_.camera2odom = Resolved /\ graph_.cameraMatrix = cycle.seq
    /\ f_frame_.id = cycle.seq
    /\ f_frame_.pose = <<odomTotf(cycle.seq), "tf">>
    /\ f_frame_.desc \in Images
    /\ ~f_frame_.world
    /\ c_frame_ = NoFrame /\ map_ = <<>> /\ f_pub_.n = 0

\* Three failed lookups, then the input that initializes.
C11_Witness ==
  /\ cycle.kind = "init"
  /\ cycle.seq = 4
  /\ hist.tf_writes = 4
  /\ Len(f_frame_.desc) > 0

\* C13. Steady-state policy side effects: in a cycle that starts in WORKING,
\* inliers below MIN_INLIERS make the current frame the fixed frame, compute
\* its world points, cluster them, add them to the map (in that order, once
\* each) and leave the reset flag true; otherwise the reset flag is false,
\* the fixed frame is unchanged and nothing is added to the map.
C13_SteadyStatePolicy ==
  (track /\ cycle.pre_state = WORKING) =>
    IF Cardinality(inliers_) < MIN_INLIERS
    THEN /\ SameFrame(f_frame_, c_frame_)
         /\ f_frame_.world /\ f_frame_.clustered
         /\ cycle.grown = 1
         /\ Len(map_) = cycle.pre_map + 1
         /\ map_[Len(map_)] = [id |-> c_frame_.id, world |-> TRUE,
                               clustered |-> TRUE]
         /\ reset_fixed_frame_
    ELSE /\ ~reset_fixed_frame_
         /\ f_frame_ = cycle.pre_fixed
         /\ cycle.grown = 0
         /\ Len(map_) = cycle.pre_map

\* A WORKING cycle that replaced the fixed frame right after a WORKING cycle
\* that kept it.
C13_Witness ==
  /\ track
  /\ cycle.pre_state = WORKING
  /\ ~cycle.pre_reset
  /\ cycle.pre_map = 1
  /\ Len(map_) = 2
  /\ reset_fixed_frame_

\* C14. PoseSolveFailed is handled as InsufficientCorrespondences: a cycle
\* that ends with an empty inlier set, whether the solver ran and found
\* nothing or was skipped, ends in a state determined by the state before the
\* cycle alone: same tracking state, the current frame as fixed frame, the
\* same map growth, the same reset flag, inlier count 0.
C14_SolveFailedLikeSparse ==
  (track /\ inliers_ = {}) =>
    /\ state_ = cycle.pre_state
    /\ SameFrame(f_frame_, c_frame_)
    /\ c_frame_.inliers = 0
    /\ cycle.replaced
    /\ cycle.grown = (IF cycle.pre_state = WORKING THEN 1 ELSE 0)
    /\ Len(map_) = cycle.pre_map + cycle.grown
    /\ f_frame_.world = (cycle.pre_state = WORKING)
    /\ reset_fixed_frame_ = (cycle.pre_state = WORKING \/ cycle.pre_reset)

\* A WORKING cycle in which the solver ran and returned no inlier.
C14_Witness ==
  /\ track
  /\ cycle.pre_state = WORKING
  /\ cycle.solved
  /\ inliers_ = {}
  /\ rvec_.by = cycle.seq

\* C15. Inlier bookkeeping is scoped to one cycle: after a tracking cycle
\* matches_ and inliers_ hold only what was computed for the current input
\* (an empty inlier set if the solve was skipped), the inlier count the
\* policy compared with MIN_INLIERS is that of the current input and equals
\* the count recorded on the current frame.
C15_InlierBookkeeping ==
  track =>
    /\ c_frame_.inliers = Cardinality(inliers_)
    /\ f_pub_.inliers = Cardinality(inliers_)
    /\ inliers_ \subseteq 1..Len(matches_)
    /\ ~cycle.solved => inliers_ = {}
    /\ cycle.replaced <=> Cardinality(inliers_) < MIN_INLIERS
    /\ Len(matches_) <= Len(c_frame_.desc)
    /\ \A k \in 1..Len(matches_) :
         /\ matches_[k].queryIdx \in 1..Len(c_frame_.desc)
         /\ matches_[k].trainIdx \in 1..Len(cycle.pre_fixed.desc)
    /\ \A k \in 1..(Len(matches_) - 1) :
         matches_[k].queryIdx < matches_[k + 1].queryIdx

\* A cycle whose solve was skipped, right after a cycle that had reached the
\* threshold.
C15_Witness ==
  /\ track
  /\ ~cycle.solved
  /\ cycle.pre_inliers >= MIN_INLIERS
  /\ inliers_ = {}

\* C16 as claimed: the solver is called with use_guess = true only when an
\* earlier cycle has run the solver and left an estimate in rvec_/tvec_.
C16_GuessOnlyWithEstimate ==
  (track /\ cycle.solved /\ cycle.use_guess) => cycle.pre_rvec # NoPose

\* C18. Hint freshness in WORKING: when a cycle that starts in WORKING calls
\* the solver with use_guess = true, the cycle right before it ran the
\* solver against the same fixed frame and found at least MIN_INLIERS
\* inliers.
C18_HintFreshness ==
  (track /\ cycle.pre_state = WORKING /\ cycle.solved /\ cycle.use_guess) =>
    /\ cycle.pre_rvec.by = cycle.seq - 1
    /\ cycle.pre_rvec.on = cycle.pre_fixed.id
    /\ cycle.pre_inliers >= MIN_INLIERS
    /\ ~cycle.prev_replaced

\* A guessed solve in WORKING after an earlier replacement in WORKING.
C18_Witness ==
  /\ track
  /\ cycle.pre_state = WORKING
  /\ cycle.solved
  /\ cycle.use_guess
  /\ Len(map_) >= 2

\* C19. Publishing: the publisher is updated exactly once for every input
\* processed while INITIALIZING or WORKING and never for an input processed
\* while NOT_INITIALIZED.
C19_PublishOncePerCycle ==
  /\ state_ = NOT_INITIALIZED => f_pub_.n = 0
  /\ state_ # NOT_INITIALIZED => f_pub_.n = hist.inputs - hist.tf_ok
  /\ cycle.kind \in {"lookup_failed", "init"} => f_pub_.n = 0
  /\ track =>
       /\ f_pub_.n >= 1
       /\ f_pub_.current = cycle.seq
       /\ Cardinality({k \in 1..Len(cycle.steps) :
                         cycle.steps[k] = "publish"}) = 1

\* Three tracking cycles after a failed and a successful lookup, the last of
\* them with its solve skipped.
C19_Witness ==
  /\ track
  /\ hist.tf_ok = 2
  /\ f_pub_.n = 3
  /\ ~cycle.solved

\* C20. Reset flag scope: the reset flag is false whenever the state is
\* NOT_INITIALIZED or INITIALIZING; in WORKING it is true exactly when the
\* last completed cycle replaced the fixed frame.
C20_ResetFlagScope ==
  /\ state_ # WORKING => ~reset_fixed_frame_
  /\ state_ = WORKING => (track /\ (reset_fixed_frame_ <=> cycle.replaced))

\* The flag raised in WORKING after a bootstrap that had replaced its fixed
\* frame without raising it.
C20_Witness ==
  /\ state_ = WORKING
  /\ reset_fixed_frame_
  /\ cycle.replaced
  /\ map_[1].id > hist.tf_ok

\* C17. Map/fixed-frame consistency: whenever the state is WORKING the
\* points of the fixed frame are in the map (as its latest entry, with world
\* points computed and clustered); no frame is added to the map twice; and a
\* frame that was fixed only during INITIALIZING and replaced before the
\* transition is never added.
C17_MapFixedFrameConsistency ==
  /\ state_ = WORKING =>
       /\ Len(map_) >= 1
       /\ map_[Len(map_)] = [id |-> f_frame_.id, world |-> TRUE,
                             clustered |-> TRUE]
       /\ f_frame_.world /\ f_frame_.clustered
  /\ \A i, j \in 1..Len(map_) : i < j => map_[i].id < map_[j].id
  /\ \A i \in 1..Len(map_) : map_[i].id \notin hist.dropped
  /\ f_frame_.id \notin hist.dropped

\* WORKING with three frames in the map, after a bootstrap that dropped its
\* first fixed frame, the last cycle keeping the fixed frame.
C17_Witness ==
  /\ state_ = WORKING
  /\ hist.dropped # {}
  /\ Len(map_) >= 2
  /\ ~cycle.replaced

\* C12. Cycles never overlap: at most one call of msgsCallback is in
\* progress at any time, a call begins only when every earlier one has
\* returned, and while a cycle is part-way through, the current frame is
\* the one it built, its inlier count is the one it stored, and the state,
\* the fixed frame and the reset flag are those it found on entry.
C12_CyclesNeverOverlap ==
  /\ Cardinality(spinner.calls) <= 1
  /\ \A k \in spinner.calls :
       /\ k.seq = spinner.finished + 1
       /\ k.seq = spinner.started
       /\ k.pc # "entry" =>
            /\ c_frame_.id = k.seq
            /\ state_ = k.state
            /\ f_frame_.id = k.fixed
            /\ reset_fixed_frame_ = k.reset
       /\ k.pc \in {"publish", "policy"} =>
            /\ c_frame_.inliers = Cardinality(inliers_)
            /\ inliers_ \subseteq 1..Len(matches_)
       /\ k.pc = "policy" =>
            /\ f_pub_.current = k.seq
            /\ f_pub_.fixed = k.fixed

\* A cycle about to run the fixed-frame policy in WORKING while the next
\* message set is already waiting.
C12_Witness ==
  /\ spinner.arrived > spinner.started
  /\ \E k \in spinner.calls : k.pc = "policy" /\ k.state = WORKING

====
